---- MODULE Spec2Model ----
(***************************************************************************)
(* Model of the fixed-window rate limiter (rate_limiter.go), the admission *)
(* middleware (middleware.go) and the endpoint handler (main.go).          *)
(*                                                                         *)
(* Request-handling goroutines (Workers) run the middleware closure or     *)
(* call GetRemainingRequests; one background goroutine drains the ticker   *)
(* channel and replaces the Requests map.  Every statement that touches    *)
(* shared state is a step of its own, so that the mutex, and nothing in    *)
(* the model's granularity, is what serialises the critical sections.      *)
(***************************************************************************)
EXTENDS Integers, Sequences, FiniteSets, TLC

\* ---------------------------------------------------------------- bounds
NumWorkers == 2
MaxLimit == 2
MaxWindow == 2
MaxTime == 2
MaxCalls == 3
MaxHeaderLen == 3

Workers == 1..NumWorkers
LimitArgs == (-1)..MaxLimit
WindowArgs == (-1)..MaxWindow

\* ------------------------------------------------- strings as char tuples
Whitespace == {" ", "\t"}

RECURSIVE TrimLeft(_)
TrimLeft(s) ==
  IF s # <<>> /\ Head(s) \in Whitespace THEN TrimLeft(Tail(s)) ELSE s

RECURSIVE TrimRight(_)
TrimRight(s) ==
  IF s # <<>> /\ s[Len(s)] \in Whitespace
    THEN TrimRight(SubSeq(s, 1, Len(s) - 1))
    ELSE s

\* strings.TrimSpace
TrimSpace(s) == TrimRight(TrimLeft(s))

\* strings.Index for a one-byte separator: 0-based index of the first
\* occurrence, -1 when absent
Index(s, c) ==
  IF \E i \in 1..Len(s) : s[i] = c
    THEN (CHOOSE i \in 1..Len(s) : s[i] = c /\ \A j \in 1..(i - 1) : s[j] # c) - 1
    ELSE -1

\* strings.LastIndex: 0-based index of the last occurrence, -1 when absent
LastIndex(s, c) ==
  IF \E i \in 1..Len(s) : s[i] = c
    THEN (CHOOSE i \in 1..Len(s) : s[i] = c /\ \A j \in (i + 1)..Len(s) : s[j] # c) - 1
    ELSE -1

\* strings.Split(s, ",")[0]
SplitFirst(s, c) ==
  IF Index(s, c) = -1 THEN s ELSE SubSeq(s, 1, Index(s, c))

\* the priority of the two headers swapped: X-Real-IP before X-Forwarded-For
getClientIPRealIPFirst(r) ==
  IF r.realIP # <<>>
    THEN TrimSpace(r.realIP)
    ELSE IF r.xff # <<>>
      THEN TrimSpace(SplitFirst(r.xff, ","))
      ELSE IF LastIndex(r.remoteAddr, ":") # -1
        THEN SubSeq(r.remoteAddr, 1, LastIndex(r.remoteAddr, ":"))
        ELSE r.remoteAddr

\* getClientIP: X-Forwarded-For first entry, else X-Real-IP, else RemoteAddr
\* cut at its last colon
getClientIP(r) ==
  IF r.xff # <<>>
    THEN TrimSpace(SplitFirst(r.xff, ","))
    ELSE IF r.realIP # <<>>
      THEN TrimSpace(r.realIP)
      ELSE IF LastIndex(r.remoteAddr, ":") # -1
        THEN SubSeq(r.remoteAddr, 1, LastIndex(r.remoteAddr, ":"))
        ELSE r.remoteAddr

\* the requests the workers draw from: one per branch of getClientIP
HttpRequests ==
  { [method |-> "GET",  xff |-> <<"a", ",", " ", "b">>, realIP |-> <<" ", "b">>,
     remoteAddr |-> <<"c", ":", "1">>],
    [method |-> "GET",  xff |-> <<>>, realIP |-> <<" ", "b">>,
     remoteAddr |-> <<"c", ":", "1">>],
    [method |-> "POST", xff |-> <<>>, realIP |-> <<>>,
     remoteAddr |-> <<"a", ":", "2">>] }

\* every string of at most n characters over the alphabet S
Strings(S, n) == UNION { [1..k -> S] : k \in 0..n }

\* header and address values for getClientIP: entries, commas, blanks, colons
XffValues == Strings({"a", ",", " "}, MaxHeaderLen)
RealIPValues == Strings({"b", " "}, MaxHeaderLen)
AddrValues == Strings({"1", "2", ":"}, MaxHeaderLen)

\* requests that take each branch of getClientIP with every such value
IpRequests ==
  { [method |-> "GET", xff |-> x, realIP |-> y, remoteAddr |-> <<"1", ":", "1">>] :
      x \in XffValues \ {<<>>}, y \in {<<>>, <<"b">>} }
  \cup
  { [method |-> "GET", xff |-> <<>>, realIP |-> y, remoteAddr |-> <<"1", ":", "1">>] :
      y \in RealIPValues \ {<<>>} }
  \cup
  { [method |-> "GET", xff |-> <<>>, realIP |-> <<>>, remoteAddr |-> a] :
      a \in AddrValues }

NoReq == [method |-> "", xff |-> <<>>, realIP |-> <<>>, remoteAddr |-> <<>>]
NoIp == <<>>

Ids == { getClientIP(r) : r \in HttpRequests }

\* ------------------------------------------------------------------ state
VARIABLES
  rl,             \* "none" before NewRateLimiter, then "live" or "panic"
  MaxRequests,    \* RateLimiter.MaxRequests
  WindowDuration, \* RateLimiter.WindowDuration
  Requests,       \* RateLimiter.Requests, a function on the keys present
  Mutex,          \* RateLimiter.Mutex: its holder, or NoOwner
  tickerC,        \* number of ticks buffered in ticker.C (capacity 1)
  now,            \* time units since NewTicker
  rpc,            \* position of the reset goroutine
  pc,             \* position of each worker
  req,            \* the request a worker is serving
  ip,             \* the identifier a worker is serving
  currentCount,   \* local currentCount of AllowRequest
  ret,            \* result of AllowRequest
  remaining,      \* result of GetRemainingRequests
  status,         \* HTTP status written for the request
  nextCalls,      \* times next(w, r) ran for the request
  wrote,          \* the request stored into Requests
  results,        \* per id, the AllowRequest results decided since the last reset
  invoked,        \* per id, handler runs since the last reset
  exhausted,      \* ids whose count had reached MaxRequests at the last reset
  issued,         \* number of requests that have arrived so far
  resets,         \* number of resets performed
  segment         \* since the start of the observed run segment: the calls
                  \* accepted per id, and the resets performed

vars == << rl, MaxRequests, WindowDuration, Requests, Mutex, tickerC, now, rpc,
           pc, req, ip, currentCount, ret, remaining, status, nextCalls, wrote,
           results, invoked, exhausted, issued, resets, segment >>

shared == << rl, MaxRequests, WindowDuration >>
locals == << req, ip, currentCount, ret, remaining, status, nextCalls, wrote >>
history == << results, invoked, exhausted, issued, resets, segment >>
clock == << tickerC, now >>

NoOwner == 0
Resetter == NumWorkers + 1

EmptyMap == << >>

\* a run segment in which nothing has happened yet
NoSegment == [admitted |-> [i \in Ids |-> 0], resets |-> 0]

\* rl.Requests[ip]: the zero value for an absent key
Get(m, k) == IF k \in DOMAIN m THEN m[k] ELSE 0

\* rl.Requests[ip] = v
Put(m, k, v) == [x \in (DOMAIN m) \cup {k} |-> IF x = k THEN v ELSE m[x]]


\* ------------------------------------------------------- code fragments
\* a Lock that never blocks
MutexNeverHeld(m) == TRUE

\* sync.Mutex: Lock proceeds only when nobody holds the mutex
MutexFree(m) == m = NoOwner

\* the test off by one, rejecting the call that would fill the window
LimitReachedEarly(count, max) == count + 1 >= max

\* the test off by one, admitting one call past the limit
LimitReachedLate(count, max) == count > max

\* an Unlock written at the end of the function, missed by the early return
UnlockSkippedOnReject(m, allowed) == IF allowed THEN NoOwner ELSE m

\* AllowRequest's defer rl.Mutex.Unlock(): runs on every return
DeferredUnlock(m, allowed) == NoOwner

\* the test of AllowRequest: currentCount >= rl.MaxRequests
LimitReached(count, max) == count >= max

\* a store that rebuilds the table around the one key it writes
StoredAlone(m, k, count) == [x \in {k} |-> count + 1]

\* a store that forgets the increment
StoredUnincremented(m, k, count) == Put(m, k, count)

\* the store of AllowRequest: rl.Requests[ip] = currentCount + 1
Stored(m, k, count) == Put(m, k, count + 1)

\* the subtraction without the cut at 0
GetRemainingUnclamped(m, max, k) == max - Get(m, k)

\* GetRemainingRequests: MaxRequests - currentCount, negative results cut to 0
GetRemainingRequests(m, max, k) ==
  IF max - Get(m, k) < 0 THEN 0 ELSE max - Get(m, k)

\* a reset that expires one identifier and keeps the others
ClearedOneKey(m) ==
  IF DOMAIN m = {}
    THEN m
    ELSE [x \in DOMAIN m \ {CHOOSE k \in DOMAIN m : TRUE} |-> m[x]]

\* a reset that keeps the old table
ClearedNothing(m) == m

\* the reset: rl.Requests = make(map[string]int)
Cleared(m) == EmptyMap

\* a ticker that fires on every time unit, whatever the window
TickDueAtOnce(t, d) == TRUE

\* time.NewTicker(d): a tick is due every d time units after creation
TickDue(t, d) == t % d = 0

\* time.NewTicker panics for a non-positive duration
TickerPanics(d) == d <= 0

\* the test without its negation
RejectsInverted(allowed) == allowed

\* the branch that never rejects
RejectsNever(allowed) == FALSE

\* the middleware's test: if !limiter.AllowRequest(ip) { ... 429 ... return }
Rejects(allowed) == ~allowed

NoStatus == 0
StatusOK == 200
StatusMethodNotAllowed == 405
StatusTooManyRequests == 429

\* handleDataRequest: 405 for anything but GET, else the 200 JSON body
handleDataRequest(r) ==
  IF r.method # "GET" THEN StatusMethodNotAllowed ELSE StatusOK

\* ------------------------------------------------------------------ Init
Init ==
  /\ rl = "none"
  /\ MaxRequests \in LimitArgs
  /\ WindowDuration \in WindowArgs
  /\ Requests = EmptyMap
  /\ Mutex = NoOwner
  /\ tickerC = 0
  /\ now = 0
  /\ rpc = "off"
  /\ pc = [w \in Workers |-> "idle"]
  /\ req = [w \in Workers |-> NoReq]
  /\ ip = [w \in Workers |-> NoIp]
  /\ currentCount = [w \in Workers |-> 0]
  /\ ret = [w \in Workers |-> FALSE]
  /\ remaining = [w \in Workers |-> 0]
  /\ status = [w \in Workers |-> NoStatus]
  /\ nextCalls = [w \in Workers |-> 0]
  /\ wrote = [w \in Workers |-> FALSE]
  /\ results = [i \in Ids |-> <<>>]
  /\ invoked = [i \in Ids |-> 0]
  /\ exhausted = {}
  /\ issued = 0
  /\ resets = 0
  /\ segment = NoSegment

\* ------------------------------------------------- construction and time
\* NewRateLimiter: the struct, then startResetTicker (NewTicker, go func)
NewRateLimiter ==
  /\ rl = "none"
  /\ IF TickerPanics(WindowDuration)
       THEN /\ rl' = "panic"
            /\ UNCHANGED << Requests, rpc >>
       ELSE /\ rl' = "live"
            /\ Requests' = EmptyMap
            /\ rpc' = "recv"
  /\ UNCHANGED << MaxRequests, WindowDuration, Mutex, clock, pc, locals, history >>

\* one time unit passes; the ticker sends when a tick is due and drops the
\* tick when the channel's one slot is taken
Tick ==
  /\ rl = "live"
  /\ now < MaxTime
  /\ now' = now + 1
  /\ tickerC' = IF TickDue(now + 1, WindowDuration) THEN 1 ELSE tickerC
  /\ UNCHANGED << shared, Requests, Mutex, rpc, pc, locals, history >>

\* ------------------------------------------------------ reset goroutine
\* for range ticker.C
ResetReceive ==
  /\ rpc = "recv"
  /\ tickerC > 0
  /\ tickerC' = tickerC - 1
  /\ rpc' = "lock"
  /\ UNCHANGED << shared, Requests, Mutex, now, pc, locals, history >>

\* rl.Mutex.Lock()
ResetLock ==
  /\ rpc = "lock"
  /\ MutexFree(Mutex)
  /\ Mutex' = Resetter
  /\ rpc' = "replace"
  /\ UNCHANGED << shared, Requests, clock, pc, locals, history >>

\* rl.Requests = make(map[string]int)
ResetReplace ==
  /\ rpc = "replace"
  /\ Requests' = Cleared(Requests)
  /\ rpc' = "unlock"
  /\ results' = [i \in Ids |-> <<>>]
  /\ invoked' = [i \in Ids |-> 0]
  /\ exhausted' = { i \in Ids : Get(Requests, i) >= MaxRequests }
  /\ resets' = resets + 1
  /\ segment' = [segment EXCEPT !.resets = @ + 1]
  /\ UNCHANGED << shared, Mutex, clock, pc, locals, issued >>

\* rl.Mutex.Unlock()
ResetUnlock ==
  /\ rpc = "unlock"
  /\ Mutex' = NoOwner
  /\ rpc' = "recv"
  /\ UNCHANGED << shared, Requests, clock, pc, locals, history >>

\* ------------------------------------------------- middleware, per worker
\* a request arrives: ip := getClientIP(r), then limiter.AllowRequest(ip)
MwBegin(w, r) ==
  /\ rl = "live"
  /\ pc[w] = "idle"
  /\ issued < MaxCalls
  /\ issued' = issued + 1
  /\ req' = [req EXCEPT ![w] = r]
  /\ ip' = [ip EXCEPT ![w] = getClientIP(r)]
  /\ pc' = [pc EXCEPT ![w] = "allow_lock"]
  /\ UNCHANGED << shared, Requests, Mutex, clock, rpc, currentCount, ret, remaining,
                  status, nextCalls, wrote, results, invoked,
                  exhausted, resets, segment >>

\* AllowRequest: rl.Mutex.Lock()
AllowLock(w) ==
  /\ pc[w] = "allow_lock"
  /\ MutexFree(Mutex)
  /\ Mutex' = w
  /\ pc' = [pc EXCEPT ![w] = "allow_check"]
  /\ UNCHANGED << shared, Requests, clock, rpc, locals, history >>

\* AllowRequest: currentCount := rl.Requests[ip]; if currentCount >= MaxRequests
\* { return false }
AllowCheck(w) ==
  /\ pc[w] = "allow_check"
  /\ currentCount' = [currentCount EXCEPT ![w] = Get(Requests, ip[w])]
  /\ IF LimitReached(Get(Requests, ip[w]), MaxRequests)
       THEN /\ ret' = [ret EXCEPT ![w] = FALSE]
            /\ pc' = [pc EXCEPT ![w] = "allow_unlock"]
            /\ results' = [results EXCEPT ![ip[w]] = Append(@, FALSE)]
       ELSE /\ pc' = [pc EXCEPT ![w] = "allow_write"]
            /\ UNCHANGED << ret, results >>
  /\ UNCHANGED << shared, Requests, Mutex, clock, rpc, req, ip, remaining, status,
                  nextCalls, wrote, invoked, exhausted, issued, resets, segment >>

\* AllowRequest: rl.Requests[ip] = currentCount + 1; return true
AllowWrite(w) ==
  /\ pc[w] = "allow_write"
  /\ Requests' = Stored(Requests, ip[w], currentCount[w])
  /\ ret' = [ret EXCEPT ![w] = TRUE]
  /\ wrote' = [wrote EXCEPT ![w] = TRUE]
  /\ pc' = [pc EXCEPT ![w] = "allow_unlock"]
  /\ results' = [results EXCEPT ![ip[w]] = Append(@, TRUE)]
  /\ segment' = [segment EXCEPT !.admitted[ip[w]] = @ + 1]
  /\ UNCHANGED << shared, Mutex, clock, rpc, req, ip, currentCount, remaining, status,
                  nextCalls, invoked, exhausted, issued, resets >>

\* AllowRequest: the deferred rl.Mutex.Unlock(), and the return
AllowUnlock(w) ==
  /\ pc[w] = "allow_unlock"
  /\ Mutex' = DeferredUnlock(Mutex, ret[w])
  /\ pc' = [pc EXCEPT ![w] = "mw_branch"]
  /\ UNCHANGED << shared, Requests, clock, rpc, locals, history >>

\* the middleware's branch: 429 and return, or next(w, r)
MwBranch(w) ==
  /\ pc[w] = "mw_branch"
  /\ IF Rejects(ret[w])
       THEN /\ status' = [status EXCEPT ![w] = StatusTooManyRequests]
            /\ UNCHANGED << nextCalls, invoked >>
       ELSE /\ status' = [status EXCEPT ![w] = handleDataRequest(req[w])]
            /\ nextCalls' = [nextCalls EXCEPT ![w] = @ + 1]
            /\ invoked' = [invoked EXCEPT ![ip[w]] = @ + 1]
  /\ pc' = [pc EXCEPT ![w] = "mw_done"]
  /\ UNCHANGED << shared, Requests, Mutex, clock, rpc, req, ip, currentCount, ret,
                  remaining, wrote, results, exhausted, issued, resets, segment >>

\* the middleware closure returns; the goroutine is free for the next request
MwReturn(w) ==
  /\ pc[w] = "mw_done"
  /\ pc' = [pc EXCEPT ![w] = "idle"]
  /\ req' = [req EXCEPT ![w] = NoReq]
  /\ ip' = [ip EXCEPT ![w] = NoIp]
  /\ currentCount' = [currentCount EXCEPT ![w] = 0]
  /\ ret' = [ret EXCEPT ![w] = FALSE]
  /\ status' = [status EXCEPT ![w] = NoStatus]
  /\ nextCalls' = [nextCalls EXCEPT ![w] = 0]
  /\ wrote' = [wrote EXCEPT ![w] = FALSE]
  /\ UNCHANGED << shared, Requests, Mutex, clock, rpc, remaining, history >>

\* ------------------------------------------ GetRemainingRequests, per worker
\* a caller asks for the remaining requests of identifier i
RemBegin(w, i) ==
  /\ rl = "live"
  /\ pc[w] = "idle"
  /\ ip' = [ip EXCEPT ![w] = i]
  /\ pc' = [pc EXCEPT ![w] = "rem_lock"]
  /\ UNCHANGED << shared, Requests, Mutex, clock, rpc, req, currentCount, ret,
                  remaining, status, nextCalls, wrote, history >>

\* GetRemainingRequests: rl.Mutex.Lock()
RemLock(w) ==
  /\ pc[w] = "rem_lock"
  /\ MutexFree(Mutex)
  /\ Mutex' = w
  /\ pc' = [pc EXCEPT ![w] = "rem_read"]
  /\ UNCHANGED << shared, Requests, clock, rpc, locals, history >>

\* GetRemainingRequests: the read, the subtraction and the cut at 0
RemRead(w) ==
  /\ pc[w] = "rem_read"
  /\ currentCount' = [currentCount EXCEPT ![w] = Get(Requests, ip[w])]
  /\ remaining' = [remaining EXCEPT ![w] =
                     GetRemainingRequests(Requests, MaxRequests, ip[w])]
  /\ pc' = [pc EXCEPT ![w] = "rem_unlock"]
  /\ UNCHANGED << shared, Requests, Mutex, clock, rpc, req, ip, ret, status,
                  nextCalls, wrote, history >>

\* GetRemainingRequests: the deferred rl.Mutex.Unlock(), and the return
RemUnlock(w) ==
  /\ pc[w] = "rem_unlock"
  /\ Mutex' = NoOwner
  /\ pc' = [pc EXCEPT ![w] = "idle"]
  /\ ip' = [ip EXCEPT ![w] = NoIp]
  /\ currentCount' = [currentCount EXCEPT ![w] = 0]
  /\ remaining' = [remaining EXCEPT ![w] = 0]
  /\ UNCHANGED << shared, Requests, clock, rpc, req, ret, status, nextCalls, wrote,
                  history >>

\* ------------------------------------------------------- specification
WorkerStep(w) ==
  \/ \E r \in HttpRequests : MwBegin(w, r)
  \/ AllowLock(w)
  \/ AllowCheck(w)
  \/ AllowWrite(w)
  \/ AllowUnlock(w)
  \/ MwBranch(w)
  \/ MwReturn(w)
  \/ \E i \in Ids : RemBegin(w, i)
  \/ RemLock(w)
  \/ RemRead(w)
  \/ RemUnlock(w)

ResetStep == ResetReceive \/ ResetLock \/ ResetReplace \/ ResetUnlock

Next ==
  \/ NewRateLimiter
  \/ Tick
  \/ ResetStep
  \/ \E w \in Workers : WorkerStep(w)

Spec == Init /\ [][Next]_vars

\* The middleware's first statement alone, on a limiter built by
\* NewRateLimiter(MaxLimit, MaxWindow): requests with arbitrary headers arrive
\* and are resolved to their identifier
IpInit ==
  /\ rl = "live"
  /\ MaxRequests = MaxLimit
  /\ WindowDuration = MaxWindow
  /\ Requests = EmptyMap
  /\ Mutex = NoOwner
  /\ tickerC = 0
  /\ now = 0
  /\ rpc = "recv"
  /\ pc = [w \in Workers |-> "idle"]
  /\ req = [w \in Workers |-> NoReq]
  /\ ip = [w \in Workers |-> NoIp]
  /\ currentCount = [w \in Workers |-> 0]
  /\ ret = [w \in Workers |-> FALSE]
  /\ remaining = [w \in Workers |-> 0]
  /\ status = [w \in Workers |-> NoStatus]
  /\ nextCalls = [w \in Workers |-> 0]
  /\ wrote = [w \in Workers |-> FALSE]
  /\ results = [i \in Ids |-> <<>>]
  /\ invoked = [i \in Ids |-> 0]
  /\ exhausted = {}
  /\ issued = 0
  /\ resets = 0
  /\ segment = NoSegment

IpNext == \E w \in Workers : \E r \in IpRequests : MwBegin(w, r)

IpSpec == IpInit /\ [][IpNext]_vars

\* The observer of a run segment starts a new segment at the current state:
\* a segment may begin anywhere in a run, not only at construction
BeginSegment ==
  /\ rl = "live"
  /\ segment # NoSegment
  /\ segment' = NoSegment
  /\ UNCHANGED << shared, Requests, Mutex, clock, rpc, pc, locals,
                  results, invoked, exhausted, issued, resets >>

SegmentNext == Next \/ BeginSegment

SegmentSpec == Init /\ [][SegmentNext]_vars

\* Scheduling of the reset task: time passes, the reset goroutine is scheduled
\* whenever it can take a step, it gets the mutex if the mutex is free again
\* and again (sync.Mutex hands the lock to a starving waiter), and whoever
\* holds the mutex runs on to its Unlock
ResetFairness ==
  /\ WF_vars(Tick)
  /\ WF_vars(ResetReceive \/ ResetReplace \/ ResetUnlock)
  /\ SF_vars(ResetLock)
  /\ WF_vars(\E w \in Workers : AllowCheck(w) \/ AllowWrite(w) \/ AllowUnlock(w)
                                    \/ RemRead(w) \/ RemUnlock(w))

FairSpec == Spec /\ ResetFairness

\* Scheduling of the clients: on top of the reset task's fairness, requests
\* keep arriving while they can, a goroutine waiting in AllowRequest's Lock
\* gets the mutex when it is released again and again, and the goroutines
\* inside the middleware keep running
ClientFairness ==
  /\ SF_vars(\E w \in Workers : (\E r \in HttpRequests : MwBegin(w, r)) \/ AllowLock(w))
  /\ SF_vars(\E w \in Workers : RemLock(w))
  /\ WF_vars(\E w \in Workers : MwBranch(w) \/ MwReturn(w))

\* the limiters a client can be admitted by: a positive limit
ClientInit == Init /\ MaxRequests >= 1

ClientSpec == ClientInit /\ [][Next]_vars /\ ResetFairness /\ ClientFairness

\* Scheduling for termination: the reset task's fairness, and every goroutine
\* waiting in Lock gets the mutex when it is released again and again
LockFairness ==
  \A w \in Workers : SF_vars(AllowLock(w) \/ RemLock(w))

\* a limiter with limit 1, which both return paths of AllowRequest are taken
\* under
TermInit == Init /\ MaxRequests = 1

TermSpec == TermInit /\ [][Next]_vars /\ ResetFairness /\ LockFairness

\* --------------------------------------------------------------- claims
\* number of accepted calls of AllowRequest(i) since the last reset
Accepted(i) == Cardinality({ k \in 1..Len(results[i]) : results[i][k] })

\* number of rejected calls of AllowRequest(i) since the last reset
Rejected(i) == Cardinality({ k \in 1..Len(results[i]) : ~results[i][k] })

\* C1: with limit >= 1, each of the first limit calls of allow(id) decided in
\* a window returns true, and while k <= limit calls have been decided
\* remaining(id) is limit - k, both as the table stands and as returned to a
\* caller of GetRemainingRequests.
C1_FirstLimitCallsAccepted ==
  (rl = "live" /\ MaxRequests >= 1) =>
    \A i \in Ids :
      /\ \A k \in 1..Len(results[i]) : k <= MaxRequests => results[i][k] = TRUE
      /\ Len(results[i]) <= MaxRequests =>
           /\ GetRemainingRequests(Requests, MaxRequests, i)
                = MaxRequests - Len(results[i])
           /\ \A w \in Workers :
                (pc[w] = "rem_unlock" /\ ip[w] = i) =>
                  remaining[w] = MaxRequests - Len(results[i])

\* C1 witness: a window with limit = 2 in which both calls were accepted and a
\* caller of GetRemainingRequests has just read 0 after the second
C1_Witness ==
  \E i \in Ids, w \in Workers :
    /\ MaxRequests = 2
    /\ results[i] = <<TRUE, TRUE>>
    /\ pc[w] = "rem_unlock" /\ ip[w] = i /\ remaining[w] = 0

\* C2: every call of allow(id) decided after limit calls of the same window
\* returns false, and from then on remaining(id) is 0, as the table stands and
\* as returned to a caller.
C2_CallsPastLimitRejected ==
  rl = "live" =>
    \A i \in Ids :
      /\ \A k \in 1..Len(results[i]) : k > MaxRequests => results[i][k] = FALSE
      /\ Len(results[i]) > MaxRequests =>
           /\ GetRemainingRequests(Requests, MaxRequests, i) = 0
           /\ \A w \in Workers :
                (pc[w] = "rem_unlock" /\ ip[w] = i) => remaining[w] = 0

\* C2 witness: limit = 1, the second and the third call of the window were
\* rejected and a caller reads remaining = 0
C2_Witness ==
  \E i \in Ids, w \in Workers :
    /\ MaxRequests = 1
    /\ results[i] = <<TRUE, FALSE, FALSE>>
    /\ pc[w] = "rem_unlock" /\ ip[w] = i /\ remaining[w] = 0

\* C3: whatever the interleaving, once more than limit calls of allow(id) have
\* been decided in a window exactly limit of them returned true, the others
\* false, and counts[id] is limit; at every moment counts[id] is the number of
\* accepted calls (no lost update, no over-count).
C3_ConcurrentExactlyLimit ==
  (rl = "live" /\ MaxRequests >= 0) =>
    \A i \in Ids :
      /\ Get(Requests, i) = Accepted(i)
      /\ Len(results[i]) > MaxRequests =>
           /\ Accepted(i) = MaxRequests
           /\ Rejected(i) = Len(results[i]) - MaxRequests
           /\ Get(Requests, i) = MaxRequests

\* C3 witness: every worker is inside the middleware for the same id at once,
\* all of them decided in this window, and they outnumber the limit
C3_Witness ==
  \E i \in Ids :
    /\ MaxRequests >= 1
    /\ NumWorkers > MaxRequests
    /\ \A w \in Workers : pc[w] \in {"allow_unlock", "mw_branch"} /\ ip[w] = i
    /\ Len(results[i]) = NumWorkers
    /\ Cardinality({ w \in Workers : ret[w] }) = MaxRequests


\* C4: after a reset, an identifier that had used up its limit before the
\* reset has remaining = limit until its next call is decided (as the table
\* stands and as returned to a caller), and the first call of allow(id)
\* decided after the reset returns true.
C4_ResetRestoresExhausted ==
  (rl = "live" /\ MaxRequests >= 1) =>
    \A i \in exhausted :
      /\ Len(results[i]) = 0 =>
           /\ GetRemainingRequests(Requests, MaxRequests, i) = MaxRequests
           /\ \A w \in Workers :
                (pc[w] = "rem_unlock" /\ ip[w] = i) => remaining[w] = MaxRequests
      /\ Len(results[i]) >= 1 => results[i][1] = TRUE

\* C4 witness: an identifier exhausted at the last reset has been admitted
\* again by the one call decided since
C4_Witness ==
  \E i \in exhausted :
    /\ MaxRequests >= 1
    /\ resets >= 1
    /\ results[i] = <<TRUE>>
    /\ Get(Requests, i) = 1

\* the positions inside AllowRequest and GetRemainingRequests
InCall == {"allow_lock", "allow_check", "allow_write", "allow_unlock",
           "rem_lock", "rem_read", "rem_unlock"}

\* C5: no step of allow(A) or remaining(A) changes what the table holds for
\* another identifier B: neither the presence of B's key, nor counts[B], nor
\* remaining(B), nor the outcome the next allow(B) would have.
C5_IdsIsolated ==
  [][\A w \in Workers :
       (pc[w] \in InCall /\ pc'[w] # pc[w]) =>
         \A b \in Ids \ {ip[w]} :
           /\ (b \in DOMAIN Requests') = (b \in DOMAIN Requests)
           /\ Get(Requests', b) = Get(Requests, b)
           /\ GetRemainingRequests(Requests', MaxRequests, b)
                = GetRemainingRequests(Requests, MaxRequests, b)
           /\ LimitReached(Get(Requests', b), MaxRequests)
                = LimitReached(Get(Requests, b), MaxRequests)]_vars

\* C5 witness: B was counted once by a call that has returned, and a worker has
\* then filled A up to the limit; B still has its count of 1
C5_Witness ==
  \E w \in Workers, b \in Ids :
    /\ MaxRequests = 2
    /\ pc[w] = "allow_unlock" /\ ret[w] /\ ip[w] # b
    /\ Get(Requests, ip[w]) = MaxRequests
    /\ \A v \in Workers \ {w} : pc[v] = "idle"
    /\ Get(Requests, b) = 1

\* C6: when the middleware has finished with a request, next ran exactly once
\* if AllowRequest returned true and not at all if it returned false; a
\* rejected request got status 429 and never stored into the table; before the
\* branch next has not run.
C6_GateForwardsIffAllowed ==
  \A w \in Workers :
    /\ pc[w] = "mw_done" =>
         /\ (nextCalls[w] = 1) = ret[w]
         /\ nextCalls[w] \in {0, 1}
         /\ ret[w] => status[w] = handleDataRequest(req[w])
         /\ ~ret[w] => (status[w] = StatusTooManyRequests /\ ~wrote[w])
    /\ pc[w] # "mw_done" => nextCalls[w] = 0

\* C6 witness: a rejected request, finished with 429 and no call of next,
\* beside an admitted one whose handler ran once
C6_Witness ==
  \E w \in Workers, v \in Workers :
    /\ pc[w] = "mw_done" /\ ~ret[w] /\ status[w] = StatusTooManyRequests
    /\ nextCalls[w] = 0 /\ ~wrote[w]
    /\ pc[v] = "mw_done" /\ ret[v] /\ nextCalls[v] = 1 /\ status[v] = StatusOK


\* C7 as stated: for one client the handler runs at most limit times between
\* two consecutive resets; the first limit requests of a window are forwarded
\* (200 for a GET), the later ones rejected (429), also in the windows that
\* follow a reset.
C7_HandlerRunsAtMostLimitPerWindow ==
  (rl = "live" /\ MaxRequests >= 1) =>
    /\ \A i \in Ids :
         /\ invoked[i] <= MaxRequests
         /\ \A k \in 1..Len(results[i]) : results[i][k] = (k <= MaxRequests)
    /\ \A w \in Workers :
         pc[w] = "mw_done" =>
           /\ ret[w] => (nextCalls[w] = 1 /\
                           (req[w].method = "GET" => status[w] = StatusOK))
           /\ ~ret[w] => (nextCalls[w] = 0 /\ status[w] = StatusTooManyRequests)

\* C7 amended: for one client at most limit requests are admitted between two
\* consecutive resets: in the order of their admission checks the first limit
\* requests of a window are admitted and the later ones rejected (429), also
\* in the windows that follow a reset; the handler runs exactly once for each
\* admitted request (200 for a GET) and never for a rejected one.  The handler
\* runs after the lock is released, so its run may fall after the next reset.
C7_AdmittedAtMostLimitPerWindow ==
  (rl = "live" /\ MaxRequests >= 1) =>
    /\ \A i \in Ids :
         /\ Accepted(i) <= MaxRequests
         /\ \A k \in 1..Len(results[i]) : results[i][k] = (k <= MaxRequests)
    /\ \A w \in Workers :
         pc[w] = "mw_done" =>
           /\ ret[w] => (nextCalls[w] = 1 /\
                           (req[w].method = "GET" => status[w] = StatusOK))
           /\ ~ret[w] => (nextCalls[w] = 0 /\ status[w] = StatusTooManyRequests)

\* C7 witness: limit 1; a client exhausted at the reset is admitted again and
\* answered 200 in the new window, in which the handler has also run for the
\* request admitted before the reset
C7_Witness ==
  \E i \in exhausted, w \in Workers :
    /\ MaxRequests = 1
    /\ resets >= 1
    /\ results[i] = <<TRUE>>
    /\ invoked[i] = 2
    /\ pc[w] = "mw_done" /\ ip[w] = i /\ ret[w] /\ status[w] = StatusOK

\* C8 as stated: no limiter exists for a non-positive limit or a non-positive
\* window.
C8_ConstructRejectsNonPositive ==
  (MaxRequests <= 0 \/ WindowDuration <= 0) => rl # "live"

Max(a, b) == IF a >= b THEN a ELSE b

\* C9: the value GetRemainingRequests computes for id is
\* max(0, limit - counts[id]) with an absent key counted as 0, it is never
\* negative, and no step of the call changes the table (no count, no key).
C9_RemainingIsClampedAndReadOnly ==
  [][\A w \in Workers :
       /\ (pc[w] = "rem_read" /\ pc'[w] = "rem_unlock") =>
            /\ remaining'[w] =
                 Max(0, MaxRequests - (IF ip[w] \in DOMAIN Requests
                                         THEN Requests[ip[w]] ELSE 0))
            /\ remaining'[w] >= 0
       /\ (pc[w] \in {"rem_lock", "rem_read", "rem_unlock"} /\ pc'[w] # pc[w]) =>
            /\ Requests' = Requests
            /\ DOMAIN Requests' = DOMAIN Requests]_vars

\* C9 witness: a caller holds the result 0 where limit - counts[id] is negative
C9_Witness ==
  \E w \in Workers :
    /\ pc[w] = "rem_unlock"
    /\ MaxRequests - Get(Requests, ip[w]) < 0
    /\ remaining[w] = 0
    /\ ip[w] \notin DOMAIN Requests

\* ticks the ticker has delivered and the reset goroutine has not yet turned
\* into a reset
PendingTicks == tickerC + (IF rpc \in {"lock", "replace"} THEN 1 ELSE 0)

IsTrimOf(t, s) ==
  \E i \in 1..(Len(s) + 1), j \in 0..Len(s) :
    /\ t = SubSeq(s, i, j)
    /\ \A k \in 1..Len(s) : (k < i \/ k > j) => s[k] \in Whitespace
    /\ t # <<>> => (t[1] \notin Whitespace /\ t[Len(t)] \notin Whitespace)

\* e is what comes before the first comma of s, or s when it has no comma
IsFirstEntryOf(e, s) ==
  \E n \in 0..Len(s) :
    /\ e = SubSeq(s, 1, n)
    /\ \A k \in 1..n : s[k] # ","
    /\ n = Len(s) \/ s[n + 1] = ","

\* h is a with everything from its last colon on removed
IsHostOf(h, a) ==
  IF \E k \in 1..Len(a) : a[k] = ":"
    THEN \E n \in 1..Len(a) :
           /\ a[n] = ":"
           /\ \A k \in (n + 1)..Len(a) : a[k] # ":"
           /\ h = SubSeq(a, 1, n - 1)
    ELSE h = a

\* a and b are the same address with two different ports: equal up to a
\* colon, different after it, and no colon in either port
SamePeer(a, b) ==
  /\ a # b
  /\ \E n \in 1..Len(a) :
       /\ n <= Len(b)
       /\ SubSeq(a, 1, n) = SubSeq(b, 1, n)
       /\ a[n] = ":"
       /\ \A k \in (n + 1)..Len(a) : a[k] # ":"
       /\ \A k \in (n + 1)..Len(b) : b[k] # ":"

\* the request has neither header
Plain(r) == r.xff = <<>> /\ r.realIP = <<>>

\* C11: the identifier the middleware resolves for a request is the trimmed
\* first comma-separated entry of X-Forwarded-For when that header is
\* non-empty; otherwise the trimmed X-Real-IP when that is non-empty;
\* otherwise the connection address cut at its last colon.  Two header-less
\* requests whose addresses differ only after the last colon get the same
\* identifier, the key of their one counter.
C11_ClientIdentityPriority ==
  /\ \A w \in Workers :
       pc[w] = "allow_lock" =>
         /\ req[w].xff # <<>> =>
              \E n \in 0..Len(req[w].xff) :
                /\ IsFirstEntryOf(SubSeq(req[w].xff, 1, n), req[w].xff)
                /\ IsTrimOf(ip[w], SubSeq(req[w].xff, 1, n))
         /\ (req[w].xff = <<>> /\ req[w].realIP # <<>>) =>
              IsTrimOf(ip[w], req[w].realIP)
         /\ Plain(req[w]) => IsHostOf(ip[w], req[w].remoteAddr)
  /\ \A w \in Workers, v \in Workers :
       ( /\ pc[w] = "allow_lock" /\ pc[v] = "allow_lock"
         /\ Plain(req[w]) /\ Plain(req[v])
         /\ SamePeer(req[w].remoteAddr, req[v].remoteAddr) )
       => ip[w] = ip[v]

\* C11 witness: a request carrying both headers resolved to the trimmed first
\* entry of X-Forwarded-For, beside a request with X-Real-IP alone resolved to
\* its trimmed value
C11_Witness ==
  \E w \in Workers, v \in Workers :
    /\ pc[w] = "allow_lock" /\ pc[v] = "allow_lock"
    /\ req[w].xff = <<" ", "a", ",">> /\ req[w].realIP = <<"b">>
    /\ ip[w] = <<"a">>
    /\ req[v].xff = <<>> /\ req[v].realIP = <<" ", "b", " ">>
    /\ ip[v] = <<"b">>

\* two header-less requests from one address and two ports, resolved alike
C11_SharedCounter ==
  \E w \in Workers, v \in Workers :
    /\ pc[w] = "allow_lock" /\ pc[v] = "allow_lock"
    /\ Plain(req[w]) /\ Plain(req[v])
    /\ req[w].remoteAddr = <<"1", ":", "1">>
    /\ req[v].remoteAddr = <<"1", ":", "2">>
    /\ ip[w] = <<"1">> /\ ip[v] = <<"1">>

\* ------------------------------------------------------ table invariants
\* C12: with limit >= 1, every key present in the table has a count between 1
\* and limit in every reachable state, whatever the interleaving of allow,
\* remaining and reset; and a key appears in the table only by the store of an
\* accepted allow for that key, never by a rejected allow, a remaining call or
\* a reset.
C12_CountsBetweenOneAndLimit ==
  /\ [](rl = "live" /\ MaxRequests >= 1 =>
          \A k \in DOMAIN Requests : 1 <= Requests[k] /\ Requests[k] <= MaxRequests)
  /\ [][(DOMAIN Requests' \ DOMAIN Requests) # {} =>
          \E w \in Workers :
            /\ pc[w] = "allow_write" /\ pc'[w] = "allow_unlock"
            /\ ret'[w] = TRUE
            /\ Mutex = w
            /\ DOMAIN Requests' \ DOMAIN Requests = {ip[w]}]_vars

\* C12 witness: after a reset one key stands at limit = 2, a third call for it
\* has been rejected, and a remaining call has read an identifier that has no
\* key
C12_Witness ==
  \E w \in Workers, v \in Workers :
    /\ MaxRequests = 2
    /\ resets >= 1
    /\ pc[w] = "mw_branch" /\ ~ret[w]
    /\ DOMAIN Requests = {ip[w]}
    /\ Requests[ip[w]] = MaxRequests
    /\ pc[v] = "rem_unlock" /\ ip[v] \notin DOMAIN Requests

\* the table is the same but for key k, whose count went up by exactly 1
OnlyRaised(old, new, k) ==
  /\ DOMAIN new = DOMAIN old \cup {k}
  /\ new[k] = Get(old, k) + 1
  /\ \A x \in DOMAIN old \ {k} : new[x] = old[x]

\* C13: allow(id) returns false exactly when counts[id] >= limit at its check,
\* and then no step of the call changes the table; otherwise it returns true
\* and the call's only change to the table is counts[id] raised by exactly 1.
\* From the check to the return the count the call read is the count the
\* table holds.
C13_AllowEffect ==
  /\ [][\A w \in Workers :
          /\ (pc[w] = "allow_lock" /\ pc'[w] # pc[w]) => Requests' = Requests
          /\ (pc[w] = "allow_check" /\ pc'[w] # pc[w]) =>
               /\ Requests' = Requests
               /\ (pc'[w] = "allow_unlock") = (Get(Requests, ip[w]) >= MaxRequests)
               /\ (pc'[w] = "allow_write") = (Get(Requests, ip[w]) < MaxRequests)
               /\ pc'[w] = "allow_unlock" => ret'[w] = FALSE
          /\ (pc[w] = "allow_write" /\ pc'[w] # pc[w]) =>
               /\ ret'[w] = TRUE
               /\ OnlyRaised(Requests, Requests', ip[w])
          /\ (pc[w] = "allow_unlock" /\ pc'[w] # pc[w]) =>
               /\ Requests' = Requests
               /\ ret'[w] = ret[w]
          /\ (pc[w] \in {"allow_check", "allow_write", "allow_unlock"}
                /\ pc'[w] = pc[w]) => Requests' = Requests]_vars
  /\ [](\A w \in Workers :
          /\ pc[w] = "allow_write" =>
               (currentCount[w] = Get(Requests, ip[w]) /\ currentCount[w] < MaxRequests)
          /\ pc[w] = "allow_unlock" =>
               IF ret[w]
                 THEN /\ wrote[w]
                      /\ currentCount[w] < MaxRequests
                      /\ Get(Requests, ip[w]) = currentCount[w] + 1
                 ELSE /\ ~wrote[w]
                      /\ currentCount[w] >= MaxRequests
                      /\ Get(Requests, ip[w]) = currentCount[w])

\* C13 witness: limit 1; one call has returned false for a full identifier
\* and another holds the result true for a second identifier, whose count it
\* raised from 0 to 1 beside the first one's
C13_Witness ==
  \E w \in Workers, v \in Workers :
    /\ MaxRequests = 1
    /\ pc[w] = "mw_branch" /\ ~ret[w] /\ ~wrote[w]
    /\ pc[v] = "allow_unlock" /\ ret[v] /\ ip[v] # ip[w]
    /\ DOMAIN Requests = {ip[w], ip[v]}
    /\ Requests[ip[w]] = 1 /\ Requests[ip[v]] = 1

\* ------------------------------------------------------ mutual exclusion
\* the workers between their Lock and their Unlock
InCritical ==
  { w \in Workers :
      pc[w] \in {"allow_check", "allow_write", "allow_unlock", "rem_read", "rem_unlock"} }

\* the reset goroutine is between its Lock and its Unlock
ResetInCritical == rpc \in {"replace", "unlock"}

\* C14: at most one of allow, remaining and reset holds the lock at any time,
\* and the mutex names that holder; the reset replaces the table only while
\* no allow is between its Lock and its Unlock, so never between an allow's
\* read and its write; and the count an accepted allow writes is one more
\* than the count the table holds at that moment, never a count read before a
\* reset.
C14_CriticalSectionsExclusive ==
  /\ [](/\ Cardinality(InCritical) + (IF ResetInCritical THEN 1 ELSE 0) <= 1
        /\ \A w \in Workers : (w \in InCritical) = (Mutex = w)
        /\ ResetInCritical = (Mutex = Resetter))
  /\ [][/\ resets' # resets =>
             /\ InCritical = {}
             /\ \A w \in Workers : pc'[w] = pc[w]
        /\ \A w \in Workers :
             (pc[w] = "allow_write" /\ pc'[w] # pc[w]) =>
               /\ resets' = resets
               /\ currentCount[w] = Get(Requests, ip[w])
               /\ Requests'[ip[w]] = Get(Requests, ip[w]) + 1]_vars

\* C14 witness: a worker stands between its read and its write while the
\* reset goroutine, with a tick received, and another allow both wait for the
\* lock
C14_Witness ==
  \E w \in Workers, v \in Workers :
    /\ pc[w] = "allow_write" /\ Mutex = w
    /\ rpc = "lock"
    /\ pc[v] = "allow_lock" /\ ip[v] = ip[w]
    /\ Get(Requests, ip[w]) = 1

\* ---------------------------------------------------------------- reset
\* C15: a reset clears every identifier in one step: the step that performs
\* the reset leaves the table empty, so that remaining(id) is limit for every
\* id (limit >= 0), and the table stays empty until the reset goroutine
\* unlocks; any step that lowers or removes one identifier's count empties
\* the whole table, so no state holds some identifiers reset and others with
\* their counts from before.
C15_ResetClearsAllAtOnce ==
  /\ [][/\ resets' # resets =>
             /\ resets' = resets + 1
             /\ Requests' = EmptyMap
             /\ \A i \in Ids :
                  /\ Get(Requests', i) = 0
                  /\ MaxRequests >= 0 =>
                       GetRemainingRequests(Requests', MaxRequests, i) = MaxRequests
        /\ (\E k \in DOMAIN Requests :
              k \notin DOMAIN Requests' \/ Requests'[k] < Requests[k]) =>
             /\ resets' = resets + 1
             /\ DOMAIN Requests' = {}]_vars
  /\ [](rpc = "unlock" => DOMAIN Requests = {})

\* C15 witness: limit 1, both identifiers had used up their limit, and the
\* reset goroutine has just replaced the table and still holds the lock
C15_Witness ==
  /\ MaxRequests = 1
  /\ rpc = "unlock"
  /\ exhausted = Ids
  /\ Cardinality(Ids) >= 2
  /\ Requests = EmptyMap
  /\ \A i \in Ids : GetRemainingRequests(Requests, MaxRequests, i) = 1

\* ------------------------------------------------------- boundary burst
\* C16: over a run segment that contains r resets at most (r + 1) * limit
\* calls of allow(id) are accepted for one identifier, so at most 2 * limit
\* over a segment with exactly one reset; a segment may start at any state.
\* (Stated for limit >= 0.)
C16_BurstAtMostTwiceLimit ==
  (rl = "live" /\ MaxRequests >= 0) =>
    \A i \in Ids :
      /\ segment.admitted[i] <= (segment.resets + 1) * MaxRequests
      /\ segment.resets = 1 => segment.admitted[i] <= 2 * MaxRequests
      /\ segment.resets = 0 => segment.admitted[i] <= MaxRequests

\* C16 witness: limit 1; in a segment begun after the first reset the only
\* two requests that ever arrived were both accepted for one identifier, one
\* just before the second reset and one just after it: 2 * limit consecutive
\* acceptances
C16_Witness ==
  \E i \in Ids :
    /\ MaxRequests = 1
    /\ resets = 2
    /\ segment.resets = 1
    /\ segment.admitted[i] = 2 * MaxRequests
    /\ issued = 2
    /\ results[i] = <<TRUE>>
    /\ i \in exhausted

\* ---------------------------------------------------------- monotonicity
\* the step is the store of an accepted allow(i)
AcceptStep(i) ==
  \E w \in Workers :
    /\ pc[w] = "allow_write" /\ pc'[w] = "allow_unlock"
    /\ ip[w] = i
    /\ ret'[w] = TRUE

\* C17: for each identifier every step leaves counts[id] unchanged, raises it
\* by exactly 1, or is a reset; it rises exactly in the steps in which an
\* allow(id) is accepted; and a step that lowers any count is a reset, so
\* between two consecutive resets no count decreases.
C17_CountMonotoneBetweenResets ==
  [][\A i \in Ids :
       /\ \/ Get(Requests', i) = Get(Requests, i)
          \/ Get(Requests', i) = Get(Requests, i) + 1
          \/ resets' = resets + 1
       /\ (Get(Requests', i) = Get(Requests, i) + 1) = AcceptStep(i)
       /\ Get(Requests', i) > Get(Requests, i) => resets' = resets
       /\ Get(Requests', i) < Get(Requests, i) =>
            /\ resets' = resets + 1
            /\ rpc = "replace"]_vars

\* C17 witness: limit 2 and no reset yet; an identifier's count has risen
\* 0, 1, 2 over two accepted calls, a third call was rejected, and a remaining
\* call for it is in progress
C17_Witness ==
  \E i \in Ids, w \in Workers :
    /\ MaxRequests = 2
    /\ resets = 0
    /\ segment.admitted[i] = 2
    /\ results[i] = <<TRUE, TRUE, FALSE>>
    /\ Get(Requests, i) = 2
    /\ pc[w] = "rem_read" /\ ip[w] = i

\* ------------------------------------------------- rejection and recovery
\* the clock can still reach a window boundary, or a tick is already on its
\* way to the reset goroutine
TickAhead ==
  \/ PendingTicks >= 1
  \/ \E t \in (now + 1)..MaxTime : WindowDuration > 0 /\ t % WindowDuration = 0

\* the client of identifier i has stopped calling: no request can arrive any
\* more and none of its calls is still to be decided
ClientStopped(i) ==
  /\ issued = MaxCalls
  /\ \A w \in Workers :
       ~(pc[w] \in {"allow_lock", "allow_check", "allow_write"} /\ ip[w] = i)

\* C18: once a call of allow(id) has been rejected, every call of allow(id)
\* decided before the next reset is rejected too.  Under fair scheduling (the
\* reset task's, and the client's own calls), and while the clock can still
\* reach a boundary, a rejected client sees the reset fire and is admitted
\* again by its first call decided after it; a client that has stopped
\* calling by then is left with the reset done and nothing rejected since.
C18_RejectedUntilResetThenAdmitted ==
  /\ [][\A i \in Ids :
          Rejected(i) >= 1 =>
            \/ results'[i] = results[i]
            \/ results'[i] = Append(results[i], FALSE)
            \/ results'[i] = <<>> /\ resets' = resets + 1]_vars
  /\ \A i \in Ids :
       (rl = "live" /\ Rejected(i) >= 1 /\ TickAhead)
         ~> \/ results[i] = <<TRUE>>
            \/ ClientStopped(i) /\ Rejected(i) = 0

\* C18 witness: limit 1; a call of the client was rejected, the reset has
\* fired, and the client's first call decided after it has been accepted
\* while the rejected call is still on its way to its 429
C18_Witness ==
  \E i \in exhausted, w \in Workers, v \in Workers :
    /\ MaxRequests = 1
    /\ issued = 3
    /\ segment.admitted[i] = 2
    /\ resets >= 1
    /\ results[i] = <<TRUE>>
    /\ pc[w] = "allow_unlock" /\ ip[w] = i /\ ret[w]
    /\ pc[v] = "mw_branch" /\ ip[v] = i /\ ~ret[v]

\* ------------------------------------------------------ non-positive limit
\* C20: in a limiter that exists with limit <= 0, every decided call of
\* allow(id) returned false, whatever the identifier and however many resets
\* have fired; the table is empty in every state; no handler ever ran; and
\* remaining(id) returns 0.
C20_NonPositiveLimitAdmitsNothing ==
  (rl = "live" /\ MaxRequests <= 0) =>
    /\ Requests = EmptyMap
    /\ \A i \in Ids :
         /\ \A k \in 1..Len(results[i]) : results[i][k] = FALSE
         /\ segment.admitted[i] = 0
         /\ invoked[i] = 0
         /\ GetRemainingRequests(Requests, MaxRequests, i) = 0
    /\ \A w \in Workers :
         /\ pc[w] # "allow_write"
         /\ pc[w] \in {"allow_unlock", "mw_branch", "mw_done"} => (~ret[w] /\ ~wrote[w])
         /\ pc[w] = "mw_done" => (status[w] = StatusTooManyRequests /\ nextCalls[w] = 0)
         /\ pc[w] = "rem_unlock" => remaining[w] = 0

\* C20 witness: limit -1; two resets have fired, all three requests have
\* arrived, the one decided since the last reset was rejected and answered
\* 429, and a remaining call has read 0
C20_Witness ==
  \E i \in Ids, w \in Workers, v \in Workers :
    /\ rl = "live"
    /\ MaxRequests = -1
    /\ resets = 2
    /\ issued = 3
    /\ results[i] = <<FALSE>>
    /\ pc[v] = "mw_done" /\ ip[v] = i /\ status[v] = StatusTooManyRequests
    /\ pc[w] = "rem_unlock" /\ ip[w] = i /\ remaining[w] = 0

\* ------------------------------------------------------------ termination
\* C19: whoever acquires the lock releases it on every path: a call that has
\* returned (also by the rejecting early return) and a reset that has
\* completed do not hold the mutex, the step that leaves a critical section
\* frees it, and the holder can always take its next step, so nobody waits
\* on a lock that is never released.  Under fair scheduling every started
\* allow or remaining call returns and every reset firing completes.
C19_LockAlwaysReleased ==
  /\ [](/\ \A w \in Workers : pc[w] \notin
               {"allow_check", "allow_write", "allow_unlock", "rem_read", "rem_unlock"}
               => Mutex # w
        /\ rpc \notin {"replace", "unlock"} => Mutex # Resetter
        /\ \A w \in Workers :
             Mutex = w => ENABLED (AllowCheck(w) \/ AllowWrite(w) \/ AllowUnlock(w)
                                    \/ RemRead(w) \/ RemUnlock(w))
        /\ Mutex = Resetter => ENABLED (ResetReplace \/ ResetUnlock))
  /\ [][\A w \in Workers :
          (pc[w] \in {"allow_unlock", "rem_unlock"} /\ pc'[w] # pc[w]) =>
            Mutex' = NoOwner]_vars
  /\ \A w \in Workers : (pc[w] \in InCall) ~> (pc[w] \notin InCall)
  /\ (rpc \in {"lock", "replace", "unlock"}) ~> (rpc = "recv")

\* C19 witness: a rejected call has returned and freed the mutex, and the
\* other worker's remaining call holds it while the reset goroutine waits in
\* Lock
C19_Witness ==
  \E w \in Workers, v \in Workers :
    /\ pc[w] = "mw_branch" /\ ~ret[w]
    /\ pc[v] = "rem_read" /\ Mutex = v
    /\ rpc = "lock"

====
